---- MODULE Spec2Model ----
(***************************************************************************)
(* rss-aggregator: the in-memory Store (internal/store) behind its         *)
(* sync.RWMutex, the callers of the Store (the HTTP handlers and tests),   *)
(* and the Fetcher (internal/fetcher) polling loop.                        *)
(*                                                                         *)
(* Time is the reading of time.Now(): a natural number, 0 being the zero   *)
(* time.Time.  A feed identifier "feed_<UnixNano>" is modelled by the      *)
(* number it prints.  An article identifier is the digest of               *)
(* feedID + "|" + link; the digest is modelled as collision free.          *)
(***************************************************************************)
EXTENDS Integers, Sequences, FiniteSets, TLC

\* ------------------------------------------------------------- bounds
\* Largest reading of the clock; readings are 1..MaxClock.
MaxClock == 2
\* Longest batch a caller hands to SaveArticles.
MaxBatch == 2
\* Number of ticks the ticker fires.
MaxTicks == 2
\* Number of requests the HTTP handlers serve while the Fetcher runs.
MaxRequests == 2

Clients == {"c1", "c2"}
Threads == Clients

Names == {"n1"}
URLs == {"u1"}
Titles == {"t1", "t2"}
Links == {1}
LinkSpace == 10

FeedIDs == 1..MaxClock
Times == 0..MaxClock
NoFilter == 0

VARIABLES
    feeds,      \* Store.feeds: feed id -> Feed
    articles,   \* Store.articles: article id -> Article
    muW,        \* Store.mu: the thread holding the write lock, or "none"
    muR,        \* Store.mu: the threads holding the read lock
    clock,      \* the current reading of time.Now()
    pc,         \* per thread: position inside its Store call
    op,         \* per thread: the call in progress, <<name, args...>>
    idx,        \* per thread: SaveArticles' loop index
    saved,      \* per thread: SaveArticles' counter
    pre,        \* per thread: the Store contents when the lock was taken
    ret,        \* the Store call that returned in the step just taken, and its value
    issued,     \* the identifiers AddFeed has returned to the callers of Spec
    cycles,     \* number of fetchAll calls Start has made
    liveTicks,  \* number of ticks fired while ctx was not cancelled
    fpc,        \* Fetcher: position of Start / fetchAll
    tasks,      \* Fetcher: the cycle's fetch goroutines, by feed id
    results,    \* Fetcher: the buffered results channel of the cycle
    closed,     \* Fetcher: whether results has been closed
    wg,         \* Fetcher: the cycle's WaitGroup counter
    closer,     \* Fetcher: the goroutine that waits on wg and closes results
    res,        \* Fetcher: the result the collecting loop is persisting
    savedAt,    \* Fetcher: the clock reading when SaveArticles returned
    cancelled,  \* whether ctx has been cancelled (ctx.Done() is closed)
    ticker,     \* Start's ticker: "none", "running" or "stopped"
    tickReady,  \* whether a tick waits in ticker.C
    ticks,      \* number of ticks the ticker has fired
    requests,   \* number of requests the handlers have served
    received,   \* the feeds whose result the collecting loop has received this cycle
    persisted   \* the feeds the collecting loop has saved and updated this cycle

storeVars == <<feeds, articles, muW, muR, clock, pc, op, idx, saved, pre, ret>>
fetchVars == <<fpc, tasks, results, closed, wg, closer, res, savedAt, cancelled, ticker, tickReady, ticks, requests>>
histVars == <<issued, cycles, liveTicks>>
cycleVars == <<received, persisted>>
vars == <<storeVars, fetchVars, histVars, cycleVars>>

\* ------------------------------------------------------------- maps
EmptyMap == [x \in {} |-> 0]
Put(m, k, v) == [x \in DOMAIN m \cup {k} |-> IF x = k THEN v ELSE m[x]]
Del(m, ks) == [x \in DOMAIN m \ ks |-> m[x]]

\* ------------------------------------------------------------- models
Feed(id, name, url, last) == [ID |-> id, Name |-> name, URL |-> url, LastFetched |-> last]

Article(id, fid, fname, title, link, pub) ==
    [ID |-> id, FeedID |-> fid, FeedName |-> fname, Title |-> title,
     Description |-> "d", Link |-> link, PublishedAt |-> pub]

generateID(feedID, link) == feedID * LinkSpace + link

\* ------------------------------------------------------------- Store, as functions
\* AddFeed's identifier: fmt.Sprintf("feed_%d", time.Now().UnixNano()).
FeedIDAt(now) == now

AddFeedMap(fs, name, url, now) == Put(fs, FeedIDAt(now), Feed(FeedIDAt(now), name, url, 0))

\* RemoveFeed without its not-found return.
RegisteredAlways(fs, id) == TRUE

\* RemoveFeed's lookup: _, ok := s.feeds[id].
Registered(fs, id) == id \in DOMAIN fs

\* The range loop of RemoveFeed: every article of the feed is deleted.
CascadeDelete(arts, id) == Del(arts, {k \in DOMAIN arts : arts[k].FeedID = id})

\* UpdateLastFetched without its ok test: it stores the zero Feed with the time.
UpdateLastFetchedUnchecked(fs, id, t) ==
    IF id \in DOMAIN fs THEN [fs EXCEPT ![id].LastFetched = t]
    ELSE Put(fs, id, Feed(0, "", "", t))

UpdateLastFetchedMap(fs, id, t) ==
    IF id \in DOMAIN fs THEN [fs EXCEPT ![id].LastFetched = t] ELSE fs

\* SaveArticles storing the article whether or not its identifier is stored.
SaveOneOverwrite(arts, a) == Put(arts, a.ID, a)

\* SaveArticles refreshing the title of an article that is already stored.
SaveOneRefresh(arts, a) ==
    IF a.ID \in DOMAIN arts THEN [arts EXCEPT ![a.ID].Title = a.Title] ELSE Put(arts, a.ID, a)

\* One iteration of SaveArticles' loop.
SaveOne(arts, a) == IF a.ID \in DOMAIN arts THEN arts ELSE Put(arts, a.ID, a)

\* SaveArticles counting every article of the batch.
CountedAlways(arts, a, n) == n + 1

\* The loop's counter after article a: saved++ only when a is inserted.
Counted(arts, a, n) == IF a.ID \in DOMAIN arts THEN n ELSE n + 1

RECURSIVE SaveLoop(_, _, _, _)
SaveLoop(arts, batch, i, n) ==
    IF i > Len(batch) THEN [articles |-> arts, saved |-> n]
    ELSE SaveLoop(SaveOne(arts, batch[i]), batch, i + 1, Counted(arts, batch[i], n))

SaveArticlesOp(arts, batch) == SaveLoop(arts, batch, 1, 0)

\* ListArticles: filter, sort newest first, truncate.  Map iteration order and
\* sort.Slice leave the order of equal timestamps open: every sorted order is
\* a possible result.
Filtered(arts, feedID) ==
    {arts[k] : k \in {x \in DOMAIN arts : feedID = NoFilter \/ arts[x].FeedID = feedID}}

\* The sort with its comparison reversed: oldest first.
SortedOldestFirst(S) ==
    {s \in [1..Cardinality(S) -> S] :
        /\ \A i, j \in 1..Cardinality(S) : i # j => s[i] # s[j]
        /\ \A i, j \in 1..Cardinality(S) : i < j => ~(s[j].PublishedAt < s[i].PublishedAt)}

SortedOrders(S) ==
    {s \in [1..Cardinality(S) -> S] :
        /\ \A i, j \in 1..Cardinality(S) : i # j => s[i] # s[j]
        /\ \A i, j \in 1..Cardinality(S) : i < j => ~(s[j].PublishedAt > s[i].PublishedAt)}

Truncate(s, limit) == IF limit > 0 /\ Len(s) > limit THEN SubSeq(s, 1, limit) ELSE s

ListArticlesResults(arts, feedID, limit) ==
    {Truncate(s, limit) : s \in SortedOrders(Filtered(arts, feedID))}

ListFeedsResult(fs) == {fs[k] : k \in DOMAIN fs}

\* ------------------------------------------------------------- callers' inputs
\* The articles callers hand to SaveArticles directly: two versions of one
\* identifier (same feed and link, different content) and one of another feed.
ArticlePool ==
    {Article(generateID(1, 1), 1, "n1", "t1", 1, 1),
     Article(generateID(1, 1), 1, "n1", "t2", 1, 2),
     Article(generateID(2, 1), 2, "n1", "t1", 1, 2)}

Batches == UNION {[1..n -> ArticlePool] : n \in 0..MaxBatch}

NoOp == <<"none">>
None == [none |-> TRUE]
NoRet == [op |-> NoOp, val |-> 0]
Returned(o, v) == [op |-> o, val |-> v]

ClientOps ==
    {<<"AddFeed", n, u>> : n \in Names, u \in URLs}
    \cup {<<"RemoveFeed", id>> : id \in FeedIDs}
    \cup {<<"ListFeeds">>}
    \cup {<<"UpdateLastFetched", id, clock>> : id \in FeedIDs}
    \cup {<<"SaveArticles", b>> : b \in Batches}
    \cup {<<"ListArticles", f, l>> : f \in {NoFilter} \cup FeedIDs, l \in (-1)..1}

\* ------------------------------------------------------------- sync.RWMutex
\* RemoveFeed taking RLock instead of Lock.
LockModeRemoveShared(name) ==
    IF name \in {"ListFeeds", "ListArticles", "RemoveFeed"} THEN "R" ELSE "W"

\* SaveArticles taking RLock instead of Lock.
LockModeSaveShared(name) ==
    IF name \in {"ListFeeds", "ListArticles", "SaveArticles"} THEN "R" ELSE "W"

\* Which lock a Store method takes: RLock for the two listing methods, Lock
\* for the others.
LockMode(name) == IF name \in {"ListFeeds", "ListArticles"} THEN "R" ELSE "W"

CanLock(mode) == IF mode = "W" THEN muW = "none" /\ muR = {} ELSE muW = "none"

Holds(t) == muW = t \/ t \in muR

\* The deferred Unlock / RUnlock of thread t.
Unlocked(t) ==
    /\ muW' = IF muW = t THEN "none" ELSE muW
    /\ muR' = muR \ {t}

\* ------------------------------------------------------------- Store calls
\* A thread enters a Store method and reaches its Lock / RLock.
Call(t, o) ==
    /\ pc[t] = "idle"
    /\ pc' = [pc EXCEPT ![t] = "wait"]
    /\ op' = [op EXCEPT ![t] = o]
    /\ ret' = NoRet
    /\ UNCHANGED <<feeds, articles, muW, muR, clock, idx, saved, pre>>

\* Lock / RLock returns and the call is o.
Acquire(t, o) ==
    /\ pc[t] = "wait"
    /\ CanLock(LockMode(o[1]))
    /\ IF LockMode(o[1]) = "W" THEN muW' = t /\ muR' = muR
                               ELSE muR' = muR \cup {t} /\ muW' = muW
    /\ pc' = [pc EXCEPT ![t] = "held"]
    /\ op' = [op EXCEPT ![t] = o]
    /\ idx' = [idx EXCEPT ![t] = 1]
    /\ saved' = [saved EXCEPT ![t] = 0]
    /\ pre' = [pre EXCEPT ![t] = [feeds |-> feeds, articles |-> articles]]
    /\ ret' = NoRet
    /\ UNCHANGED <<feeds, articles, clock>>

\* The method returns v: the deferred unlock runs and the thread is idle again.
Return(t, v) ==
    /\ Unlocked(t)
    /\ pc' = [pc EXCEPT ![t] = "idle"]
    /\ op' = [op EXCEPT ![t] = NoOp]
    /\ idx' = [idx EXCEPT ![t] = 0]
    /\ saved' = [saved EXCEPT ![t] = 0]
    /\ pre' = [pre EXCEPT ![t] = None]
    /\ ret' = Returned(op[t], v)

AddFeed(t) ==
    /\ pc[t] = "held" /\ op[t][1] = "AddFeed"
    /\ feeds' = AddFeedMap(feeds, op[t][2], op[t][3], clock)
    /\ Return(t, Feed(FeedIDAt(clock), op[t][2], op[t][3], 0))
    /\ UNCHANGED <<articles, clock>>

\* RemoveFeed up to delete(s.feeds, id).
RemoveFeedLookup(t) ==
    /\ pc[t] = "held" /\ op[t][1] = "RemoveFeed"
    /\ IF ~Registered(feeds, op[t][2])
       THEN /\ Return(t, FALSE)
            /\ UNCHANGED <<feeds, articles, clock>>
       ELSE /\ feeds' = Del(feeds, {op[t][2]})
            /\ pc' = [pc EXCEPT ![t] = "cascade"]
            /\ ret' = NoRet
            /\ UNCHANGED <<articles, muW, muR, clock, op, idx, saved, pre>>

\* RemoveFeed's loop over s.articles, and its return.
RemoveFeedCascade(t) ==
    /\ pc[t] = "cascade"
    /\ articles' = CascadeDelete(articles, op[t][2])
    /\ Return(t, TRUE)
    /\ UNCHANGED <<feeds, clock>>

ListFeeds(t) ==
    /\ pc[t] = "held" /\ op[t][1] = "ListFeeds"
    /\ Return(t, ListFeedsResult(feeds))
    /\ UNCHANGED <<feeds, articles, clock>>

UpdateLastFetched(t) ==
    /\ pc[t] = "held" /\ op[t][1] = "UpdateLastFetched"
    /\ feeds' = UpdateLastFetchedMap(feeds, op[t][2], op[t][3])
    /\ Return(t, 0)
    /\ UNCHANGED <<articles, clock>>

\* One iteration of SaveArticles' loop over the batch.
SaveArticlesNext(t) ==
    /\ pc[t] = "held" /\ op[t][1] = "SaveArticles"
    /\ idx[t] <= Len(op[t][2])
    /\ articles' = SaveOne(articles, op[t][2][idx[t]])
    /\ saved' = [saved EXCEPT ![t] = Counted(articles, op[t][2][idx[t]], @)]
    /\ idx' = [idx EXCEPT ![t] = @ + 1]
    /\ ret' = NoRet
    /\ UNCHANGED <<feeds, muW, muR, clock, pc, op, pre>>

SaveArticlesReturn(t) ==
    /\ pc[t] = "held" /\ op[t][1] = "SaveArticles"
    /\ idx[t] > Len(op[t][2])
    /\ Return(t, saved[t])
    /\ UNCHANGED <<feeds, articles, clock>>

ListArticles(t) ==
    /\ pc[t] = "held" /\ op[t][1] = "ListArticles"
    /\ \E r \in ListArticlesResults(articles, op[t][2], op[t][3]) : Return(t, r)
    /\ UNCHANGED <<feeds, articles, clock>>

\* time.Now() moves on.
Tick ==
    /\ clock < MaxClock
    /\ clock' = clock + 1
    /\ ret' = NoRet
    /\ UNCHANGED <<feeds, articles, muW, muR, pc, op, idx, saved, pre>>

\* ------------------------------------------------------------- Parser
\* What gofeed hands back for a feed: items with a title, a link and an optional
\* publication time (0: none).  Two items share their link.
Item(title, link, published) == [Title |-> title, Link |-> link, Published |-> published]

ParseResults == {<<Item("t1", 1, 1)>>, <<Item("t2", 1, 0)>>}

FetchResult(id, arts, err) == [FeedID |-> id, Articles |-> arts, Err |-> err]

\* fetchFeed with an identifier that also depends on the item's title.
ToArticleContentID(feed, item, now) ==
    Article(generateID(feed.ID, item.Link) + (IF item.Title = "t1" THEN 0 ELSE 5),
            feed.ID, feed.Name, item.Title, item.Link,
            IF item.Published # 0 THEN item.Published ELSE now)

\* fetchFeed's loop: one Article per item, published now when the item has no time.
ToArticle(feed, item, now) ==
    Article(generateID(feed.ID, item.Link), feed.ID, feed.Name, item.Title, item.Link,
            IF item.Published # 0 THEN item.Published ELSE now)

ToArticles(feed, items, now) == [i \in 1..Len(items) |-> ToArticle(feed, items[i], now)]

\* ------------------------------------------------------------- Store methods, whole
\* RemoveFeed from Lock to Unlock.
RemoveFeedOp(fs, arts, id) ==
    IF ~Registered(fs, id)
    THEN [feeds |-> fs, articles |-> arts, ok |-> FALSE]
    ELSE [feeds |-> Del(fs, {id}), articles |-> CascadeDelete(arts, id), ok |-> TRUE]

\* ------------------------------------------------------------- Fetcher
\* In the Fetcher's specification a Store method is one step, the one in which
\* it holds the lock; the callers' variables of the lock-level specification
\* stay as they are.
callVars == <<muW, muR, pc, op, idx, saved, pre>>

\* go fetch.Start(ctx): Start reaches its first fetchAll.
Start ==
    /\ fpc = "init"
    /\ fpc' = "fetchAll"
    /\ cycles' = cycles + 1
    /\ ret' = NoRet
    /\ UNCHANGED <<feeds, articles, clock, callVars, issued, liveTicks, cycleVars>>
    /\ UNCHANGED <<tasks, results, closed, wg, closer, res, savedAt, cancelled, ticker, tickReady, ticks, requests>>

\* fetchAll returns to Start, which reaches its select (creating the ticker
\* after the first cycle).
BackToSelect ==
    /\ fpc' = "select"
    /\ ticker' = IF ticker = "none" THEN "running" ELSE ticker

\* A goroutine's copy of its feed; fetchFeed reads ID, Name and URL.
TaskFeed(f) == [ID |-> f.ID, Name |-> f.Name, URL |-> f.URL]

\* Goroutines that all read the loop variable after the loop: each works on
\* the same feed.
LaunchCaptured(list) ==
    [k \in {f.ID : f \in list} |->
        [st |-> "parse", feed |-> TaskFeed(CHOOSE f \in list : TRUE), out |-> None, err |-> FALSE]]

\* The goroutines fetchAll starts for the feeds it listed.
Launch(list) ==
    [k \in {f.ID : f \in list} |->
        [st |-> "parse", feed |-> TaskFeed(CHOOSE f \in list : f.ID = k), out |-> None, err |-> FALSE]]

\* fetchAll with no feed: ListFeeds is empty and fetchAll returns.
FetchAllEmpty ==
    /\ fpc = "fetchAll"
    /\ ListFeedsResult(feeds) = {}
    /\ BackToSelect
    /\ ret' = Returned(<<"ListFeeds">>, ListFeedsResult(feeds))
    /\ UNCHANGED <<feeds, articles, clock, callVars, histVars, cycleVars>>
    /\ UNCHANGED <<tasks, results, closed, wg, closer, res, savedAt, cancelled, tickReady, ticks, requests>>

\* fetchAll with feeds: it lists them, makes the channel, starts one goroutine
\* per feed and the closing goroutine, and reaches the collecting loop.
FanOut ==
    /\ fpc = "fetchAll"
    /\ ListFeedsResult(feeds) # {}
    /\ tasks' = Launch(ListFeedsResult(feeds))
    /\ wg' = Cardinality(ListFeedsResult(feeds))
    /\ results' = <<>>
    /\ closed' = FALSE
    /\ closer' = "wait"
    /\ fpc' = "recv"
    /\ received' = {}
    /\ persisted' = {}
    /\ ret' = Returned(<<"ListFeeds">>, ListFeedsResult(feeds))
    /\ UNCHANGED <<feeds, articles, clock, callVars, histVars>>
    /\ UNCHANGED <<res, savedAt, cancelled, ticker, tickReady, ticks, requests>>

\* A goroutine's ParseURLWithContext fails (a parse error, the 15 s timeout, or
\* ctx cancelled) and its fetchFeed returns the error.
TaskParseFail(k) ==
    /\ k \in DOMAIN tasks /\ tasks[k].st = "parse"
    /\ tasks' = [tasks EXCEPT ![k].st = "send", ![k].out = FetchResult(k, <<>>, TRUE),
                               ![k].err = TRUE]
    /\ ret' = NoRet
    /\ UNCHANGED <<feeds, articles, clock, callVars, histVars, cycleVars>>
    /\ UNCHANGED <<fpc, results, closed, wg, closer, res, savedAt, cancelled, ticker, tickReady, ticks, requests>>

\* A goroutine's ParseURLWithContext succeeds (ctx is not cancelled) and its
\* fetchFeed returns the articles.
TaskParseOk(k) ==
    /\ k \in DOMAIN tasks /\ tasks[k].st = "parse"
    /\ ~cancelled
    /\ \E items \in ParseResults :
          tasks' = [tasks EXCEPT ![k].st = "send",
                                 ![k].out = FetchResult(k, ToArticles(tasks[k].feed, items, clock), FALSE)]
    /\ ret' = NoRet
    /\ UNCHANGED <<feeds, articles, clock, callVars, histVars, cycleVars>>
    /\ UNCHANGED <<fpc, results, closed, wg, closer, res, savedAt, cancelled, ticker, tickReady, ticks, requests>>

\* A results channel made one slot short: make(chan ..., len(feeds)-1).
CapacityShort == Cardinality(DOMAIN tasks) - 1

\* Capacity of the results channel: len(feeds).
Capacity == Cardinality(DOMAIN tasks)

\* results <- FetchResult{...}
TaskSend(k) ==
    /\ k \in DOMAIN tasks /\ tasks[k].st = "send"
    /\ ~closed
    /\ Len(results) < Capacity
    /\ results' = Append(results, tasks[k].out)
    /\ tasks' = [tasks EXCEPT ![k].st = "exit", ![k].out = None]
    /\ ret' = NoRet
    /\ UNCHANGED <<feeds, articles, clock, callVars, histVars, cycleVars>>
    /\ UNCHANGED <<fpc, closed, wg, closer, res, savedAt, cancelled, ticker, tickReady, ticks, requests>>

\* The goroutine's deferred wg.Done().
TaskDone(k) ==
    /\ k \in DOMAIN tasks /\ tasks[k].st = "exit"
    /\ tasks' = [tasks EXCEPT ![k].st = "done"]
    /\ wg' = wg - 1
    /\ ret' = NoRet
    /\ UNCHANGED <<feeds, articles, clock, callVars, histVars, cycleVars>>
    /\ UNCHANGED <<fpc, results, closed, closer, res, savedAt, cancelled, ticker, tickReady, ticks, requests>>

\* The closing goroutine not waiting for the goroutines.
WaitDoneEarly == TRUE

\* Once wg.Wait() may return: every goroutine has called wg.Done().
WaitDone == wg = 0

\* wg.Wait() returns and the closing goroutine closes results.
CloseResults ==
    /\ closer = "wait"
    /\ WaitDone
    /\ closed' = TRUE
    /\ closer' = "done"
    /\ ret' = NoRet
    /\ UNCHANGED <<feeds, articles, clock, callVars, histVars, cycleVars>>
    /\ UNCHANGED <<fpc, tasks, results, wg, res, savedAt, cancelled, ticker, tickReady, ticks, requests>>

\* A loop that collects only after the channel is closed.
ReadyAfterClose == results # <<>> /\ closed

\* Whether the range over results can receive: a result is in the channel.
Ready == results # <<>>

\* The collecting loop without its test of res.Err.
FailedIgnored(r) == FALSE

\* The collecting loop's test res.Err != nil.
Failed(r) == r.Err

\* The collecting loop receives a failed result: it logs and goes on.
RecvFailed ==
    /\ fpc = "recv"
    /\ Ready
    /\ Failed(Head(results))
    /\ results' = Tail(results)
    /\ received' = received \cup {Head(results).FeedID}
    /\ ret' = NoRet
    /\ UNCHANGED <<feeds, articles, clock, callVars, histVars, persisted>>
    /\ UNCHANGED <<fpc, tasks, closed, wg, closer, res, savedAt, cancelled, ticker, tickReady, ticks, requests>>

\* The collecting loop receives a successful result.
RecvOk ==
    /\ fpc = "recv"
    /\ Ready
    /\ ~Failed(Head(results))
    /\ results' = Tail(results)
    /\ res' = Head(results)
    /\ received' = received \cup {Head(results).FeedID}
    /\ fpc' = "save"
    /\ ret' = NoRet
    /\ UNCHANGED <<feeds, articles, clock, callVars, histVars, persisted>>
    /\ UNCHANGED <<tasks, closed, wg, closer, savedAt, cancelled, ticker, tickReady, ticks, requests>>

\* saved := f.store.SaveArticles(res.Articles)
FetcherSave ==
    /\ fpc = "save"
    /\ articles' = SaveArticlesOp(articles, res.Articles).articles
    /\ ret' = Returned(<<"SaveArticles", res.Articles>>, SaveArticlesOp(articles, res.Articles).saved)
    /\ savedAt' = clock
    /\ fpc' = "update"
    /\ UNCHANGED <<feeds, clock, callVars, histVars, cycleVars>>
    /\ UNCHANGED <<tasks, results, closed, wg, closer, res, cancelled, ticker, tickReady, ticks, requests>>

\* f.store.UpdateLastFetched(res.FeedID, time.Now()): the time was read after
\* SaveArticles returned and before the lock was taken.
FetcherUpdate ==
    /\ fpc = "update"
    /\ \E now \in savedAt..clock :
          /\ feeds' = UpdateLastFetchedMap(feeds, res.FeedID, now)
          /\ ret' = Returned(<<"UpdateLastFetched", res.FeedID, now>>, 0)
    /\ persisted' = persisted \cup {res.FeedID}
    /\ fpc' = "recv"
    /\ res' = None
    /\ savedAt' = 0
    /\ UNCHANGED <<articles, clock, callVars, histVars, received>>
    /\ UNCHANGED <<tasks, results, closed, wg, closer, cancelled, ticker, tickReady, ticks, requests>>

\* The range over results ends: the channel is closed and drained.
CycleComplete ==
    /\ fpc = "recv"
    /\ results = <<>>
    /\ closed
    /\ BackToSelect
    /\ tasks' = EmptyMap
    /\ closer' = "none"
    /\ closed' = FALSE
    /\ received' = {}
    /\ persisted' = {}
    /\ ret' = NoRet
    /\ UNCHANGED <<feeds, articles, clock, callVars, histVars>>
    /\ UNCHANGED <<results, wg, res, savedAt, cancelled, tickReady, ticks, requests>>

\* A loop that never looks at ctx.
DoneNever == FALSE

\* Whether <-ctx.Done() is ready: ctx has been cancelled.
Done == cancelled

\* select: case <-ctx.Done().
SelectDone ==
    /\ fpc = "select"
    /\ Done
    /\ fpc' = "stopped"
    /\ ticker' = "stopped"
    /\ ret' = NoRet
    /\ UNCHANGED <<feeds, articles, clock, callVars, histVars, cycleVars>>
    /\ UNCHANGED <<tasks, results, closed, wg, closer, res, savedAt, cancelled, tickReady, ticks, requests>>

\* A tick served while the collecting loop of a cycle is still running.
IdleOrCollecting == fpc \in {"select", "recv"}

\* Start waits in its select: no fetchAll call is in progress.
Idle == fpc = "select"

\* select: case <-ticker.C.
SelectTick ==
    /\ Idle
    /\ tickReady
    /\ tickReady' = FALSE
    /\ fpc' = "fetchAll"
    /\ cycles' = cycles + 1
    /\ ret' = NoRet
    /\ UNCHANGED <<feeds, articles, clock, callVars, issued, liveTicks, cycleVars>>
    /\ UNCHANGED <<tasks, results, closed, wg, closer, res, savedAt, cancelled, ticker, ticks, requests>>

\* The ticker fires into ticker.C (a tick is dropped when one already waits).
TickerFire ==
    /\ ticker = "running"
    /\ ticks < MaxTicks
    /\ ticks' = ticks + 1
    /\ tickReady' = TRUE
    /\ liveTicks' = IF cancelled THEN liveTicks ELSE liveTicks + 1
    /\ ret' = NoRet
    /\ UNCHANGED <<feeds, articles, clock, callVars, issued, cycles, cycleVars>>
    /\ UNCHANGED <<fpc, tasks, results, closed, wg, closer, res, savedAt, cancelled, ticker, requests>>

\* main's cancel().
Cancel ==
    /\ ~cancelled
    /\ cancelled' = TRUE
    /\ ret' = NoRet
    /\ UNCHANGED <<feeds, articles, clock, callVars, histVars, cycleVars>>
    /\ UNCHANGED <<fpc, tasks, results, closed, wg, closer, res, savedAt, ticker, tickReady, ticks, requests>>

\* The bodies POSTed to /api/feeds: a JSON object with a name and a url, either
\* of which may be empty, or a body that does not decode.
AddFeedRequests ==
    {[Name |-> n, URL |-> u, decodes |-> TRUE] : n \in Names \cup {""}, u \in URLs \cup {""}}
    \cup {[Name |-> "", URL |-> "", decodes |-> FALSE]}

\* handleAddFeed's two tests: the body decodes, and name and url are not empty.
Accepted(req) == req.decodes /\ req.Name # "" /\ req.URL # ""

\* handleAddFeed: 400 for a request it rejects, else s.store.AddFeed(req.Name,
\* req.URL) and 201.
HandleAddFeed ==
    /\ requests < MaxRequests
    /\ requests' = requests + 1
    /\ \E req \in AddFeedRequests :
          IF Accepted(req)
          THEN /\ feeds' = AddFeedMap(feeds, req.Name, req.URL, clock)
               /\ ret' = Returned(<<"handleAddFeed", req>>, 201)
          ELSE /\ feeds' = feeds
               /\ ret' = Returned(<<"handleAddFeed", req>>, 400)
    /\ UNCHANGED <<articles, clock, callVars, histVars, cycleVars>>
    /\ UNCHANGED <<fpc, tasks, results, closed, wg, closer, res, savedAt, cancelled, ticker, tickReady, ticks>>

\* handleRemoveFeed: s.store.RemoveFeed(id).
HandleRemoveFeed(id) ==
    /\ requests < MaxRequests
    /\ requests' = requests + 1
    /\ feeds' = RemoveFeedOp(feeds, articles, id).feeds
    /\ articles' = RemoveFeedOp(feeds, articles, id).articles
    /\ ret' = Returned(<<"RemoveFeed", id>>, RemoveFeedOp(feeds, articles, id).ok)
    /\ UNCHANGED <<clock, callVars, histVars, cycleVars>>
    /\ UNCHANGED <<fpc, tasks, results, closed, wg, closer, res, savedAt, cancelled, ticker, tickReady, ticks>>

\* ------------------------------------------------------------- specifications
Init ==
    /\ feeds = EmptyMap
    /\ articles = EmptyMap
    /\ muW = "none"
    /\ muR = {}
    /\ clock = 1
    /\ pc = [t \in Threads |-> "idle"]
    /\ op = [t \in Threads |-> NoOp]
    /\ idx = [t \in Threads |-> 0]
    /\ saved = [t \in Threads |-> 0]
    /\ pre = [t \in Threads |-> None]
    /\ ret = NoRet
    /\ issued = {}
    /\ cycles = 0
    /\ liveTicks = 0
    /\ fpc = "init"
    /\ tasks = EmptyMap
    /\ results = <<>>
    /\ closed = FALSE
    /\ wg = 0
    /\ closer = "none"
    /\ res = None
    /\ savedAt = 0
    /\ cancelled = FALSE
    /\ ticker = "none"
    /\ tickReady = FALSE
    /\ ticks = 0
    /\ requests = 0
    /\ received = {}
    /\ persisted = {}

\* ------------------------------------------------------------- callers of the Store
\* A caller (an HTTP handler, a test) enters a method; its arguments play no
\* part before the lock is taken and are drawn there.
ClientCall(t) == Call(t, NoOp) /\ UNCHANGED <<fetchVars, histVars, cycleVars>>

ClientAcquire(t) == (\E o \in ClientOps : Acquire(t, o)) /\ UNCHANGED <<fetchVars, histVars, cycleVars>>

ClientAddFeed(t) ==
    /\ AddFeed(t)
    /\ issued' = issued \cup {ret'.val.ID}
    /\ UNCHANGED <<fetchVars, cycleVars, cycles, liveTicks>>

ClientRemoveFeedLookup(t) == RemoveFeedLookup(t) /\ UNCHANGED <<fetchVars, histVars, cycleVars>>

ClientRemoveFeedCascade(t) == RemoveFeedCascade(t) /\ UNCHANGED <<fetchVars, histVars, cycleVars>>

ClientListFeeds(t) == ListFeeds(t) /\ UNCHANGED <<fetchVars, histVars, cycleVars>>

ClientUpdateLastFetched(t) == UpdateLastFetched(t) /\ UNCHANGED <<fetchVars, histVars, cycleVars>>

ClientSaveArticlesNext(t) == SaveArticlesNext(t) /\ UNCHANGED <<fetchVars, histVars, cycleVars>>

ClientSaveArticlesReturn(t) == SaveArticlesReturn(t) /\ UNCHANGED <<fetchVars, histVars, cycleVars>>

ClientListArticles(t) == ListArticles(t) /\ UNCHANGED <<fetchVars, histVars, cycleVars>>

ClockStep == Tick /\ UNCHANGED <<fetchVars, histVars, cycleVars>>

\* The Store under concurrent callers.
Next ==
    \/ \E t \in Clients :
          \/ ClientCall(t)
          \/ ClientAcquire(t)
          \/ ClientAddFeed(t)
          \/ ClientRemoveFeedLookup(t)
          \/ ClientRemoveFeedCascade(t)
          \/ ClientListFeeds(t)
          \/ ClientUpdateLastFetched(t)
          \/ ClientSaveArticlesNext(t)
          \/ ClientSaveArticlesReturn(t)
          \/ ClientListArticles(t)
    \/ ClockStep

Spec == Init /\ [][Next]_vars

\* ------------------------------------------------------------- the running program
\* The Fetcher's goroutines, the request handlers that change the Store, the
\* clock, the ticker and the signal.
NextFetch ==
    \/ Start
    \/ FetchAllEmpty
    \/ FanOut
    \/ \E k \in FeedIDs : TaskParseFail(k) \/ TaskParseOk(k) \/ TaskSend(k) \/ TaskDone(k)
    \/ CloseResults
    \/ RecvFailed
    \/ RecvOk
    \/ FetcherSave
    \/ FetcherUpdate
    \/ CycleComplete
    \/ SelectDone
    \/ SelectTick
    \/ TickerFire
    \/ Cancel
    \/ HandleAddFeed
    \/ \E id \in FeedIDs : HandleRemoveFeed(id)
    \/ ClockStep

SpecFetch == Init /\ [][NextFetch]_vars

\* The goroutine that runs Start, fetchAll and the collecting loop.
MainStep ==
    \/ Start
    \/ FetchAllEmpty
    \/ FanOut
    \/ RecvFailed
    \/ RecvOk
    \/ FetcherSave
    \/ FetcherUpdate
    \/ CycleComplete
    \/ SelectDone
    \/ SelectTick

\* The goroutine of feed k; ParseURLWithContext returns (at the latest when
\* its 15 s timeout expires or ctx is cancelled).
TaskStep(k) == TaskParseFail(k) \/ TaskParseOk(k) \/ TaskSend(k) \/ TaskDone(k)

\* The Go scheduler runs every goroutine that can run; the ticker, cancel(),
\* the handlers and the clock are left free.
Fairness ==
    /\ WF_vars(MainStep)
    /\ \A k \in FeedIDs : WF_vars(TaskStep(k))
    /\ WF_vars(CloseResults)

SpecFetchFair == Init /\ [][NextFetch]_vars /\ Fairness

\* ------------------------------------------------------------- Store methods as serial steps
\* What a method leaves in s.feeds when it runs alone on contents s at time now.
SerialFeeds(o, s, now) ==
    CASE o[1] = "AddFeed" -> AddFeedMap(s.feeds, o[2], o[3], now)
      [] o[1] = "RemoveFeed" -> RemoveFeedOp(s.feeds, s.articles, o[2]).feeds
      [] o[1] = "UpdateLastFetched" -> UpdateLastFetchedMap(s.feeds, o[2], o[3])
      [] OTHER -> s.feeds

\* What it leaves in s.articles.
SerialArticles(o, s) ==
    CASE o[1] = "RemoveFeed" -> RemoveFeedOp(s.feeds, s.articles, o[2]).articles
      [] o[1] = "SaveArticles" -> SaveArticlesOp(s.articles, o[2]).articles
      [] OTHER -> s.articles

\* Whether v is a value it may return.
SerialReturns(o, s, now, v) ==
    CASE o[1] = "AddFeed" -> v = Feed(FeedIDAt(now), o[2], o[3], 0)
      [] o[1] = "RemoveFeed" -> v = RemoveFeedOp(s.feeds, s.articles, o[2]).ok
      [] o[1] = "ListFeeds" -> v = ListFeedsResult(s.feeds)
      [] o[1] = "UpdateLastFetched" -> v = 0
      [] o[1] = "SaveArticles" -> v = SaveArticlesOp(s.articles, o[2]).saved
      [] o[1] = "ListArticles" -> v \in ListArticlesResults(s.articles, o[2], o[3])
      [] OTHER -> FALSE

\* ------------------------------------------------------------- properties
InBody(t) == pc[t] \in {"held", "cascade"}
Returns(t) == InBody(t) /\ pc'[t] = "idle"
DistinctIDs(b) == \A i, j \in 1..Len(b) : i # j => b[i].ID # b[j].ID
ArticlesOf(arts, id) == {k \in DOMAIN arts : arts[k].FeedID = id}

\* C1: while RemoveFeed stands between deleting the feed and deleting its
\* articles no other Store method is inside its body, so none observes the
\* feed gone with its articles still stored; and when RemoveFeed has returned
\* true the feed is gone, none of its articles is stored, and ListArticles
\* returns none of them.
C1_RemoveFeedAtomic ==
    /\ \A t \in Threads : pc[t] = "cascade" =>
          \A u \in Threads \ {t} : ~InBody(u)
    /\ (ret.op[1] = "RemoveFeed" /\ ret.val) =>
          /\ ret.op[2] \notin DOMAIN feeds
          /\ ArticlesOf(articles, ret.op[2]) = {}
          /\ \A r \in ListArticlesResults(articles, NoFilter, 0) :
                \A i \in 1..Len(r) : r[i].FeedID # ret.op[2]

\* RemoveFeed has deleted the feed, an article of the feed is still stored, and
\* another caller waits for the lock.
C1_Witness ==
    \E t \in Threads, u \in Threads :
        /\ t # u
        /\ pc[t] = "cascade"
        /\ ArticlesOf(articles, op[t][2]) # {}
        /\ pc[u] = "wait"

\* C2: whenever an article is inserted, a feed with its FeedID is registered
\* at that moment.
C2_FeedRegisteredAtSave ==
    [][\A k \in DOMAIN articles' \ DOMAIN articles :
          articles'[k].FeedID \in DOMAIN feeds]_vars

\* C3: every AddFeed returns an identifier no AddFeed returned before, and
\* registers one more feed without replacing a registered one.
C3_AddFeedFresh ==
    [][\A t \in Threads :
          (Returns(t) /\ op[t][1] = "AddFeed") =>
              /\ ret'.val.ID \notin issued
              /\ Cardinality(DOMAIN feeds') = Cardinality(DOMAIN feeds) + 1
              /\ \A k \in DOMAIN feeds : feeds'[k] = feeds[k]]_vars

\* C4: a SaveArticles of a batch of distinct identifiers none of which is
\* stored returns the length of the batch and leaves them all stored; a
\* SaveArticles of a batch whose identifiers are all stored (the repeated
\* call) returns 0 and leaves feeds and articles as they were.
C4_SaveIdempotent ==
    [][\A t \in Threads :
          (Returns(t) /\ op[t][1] = "SaveArticles") =>
              LET b == op[t][2]
                  ids == {b[i].ID : i \in 1..Len(b)}
              IN /\ (DistinctIDs(b) /\ ids \cap DOMAIN pre[t].articles = {}) =>
                        /\ ret'.val = Len(b)
                        /\ \A i \in 1..Len(b) : articles'[b[i].ID] = b[i]
                 /\ (ids \subseteq DOMAIN pre[t].articles) =>
                        /\ ret'.val = 0
                        /\ articles' = pre[t].articles
                        /\ feeds' = pre[t].feeds]_vars

\* The repeated call has returned 0 for a batch of two distinct identifiers.
C4_Witness ==
    /\ ret.op[1] = "SaveArticles"
    /\ Len(ret.op[2]) = 2
    /\ DistinctIDs(ret.op[2])
    /\ ret.val = 0

\* A step of a call in progress: taking the lock, or a step of the body.
Progress ==
    \E t \in Clients :
        \/ ClientAcquire(t)
        \/ ClientAddFeed(t)
        \/ ClientRemoveFeedLookup(t)
        \/ ClientRemoveFeedCascade(t)
        \/ ClientListFeeds(t)
        \/ ClientUpdateLastFetched(t)
        \/ ClientSaveArticlesNext(t)
        \/ ClientSaveArticlesReturn(t)
        \/ ClientListArticles(t)

\* C5: the calls never deadlock (while a call is in progress some call can
\* take a step), and they are serial in the order in which they take the
\* lock: the Store changes only under the write lock, it does not change
\* under a reader, and a returning call leaves the contents and returns the
\* value that the method, run alone, gives on the contents it found when it
\* took the lock.
C5_Serializable ==
    /\ []((\E t \in Threads : pc[t] # "idle") => ENABLED Progress)
    /\ [](\A t \in muR : feeds = pre[t].feeds /\ articles = pre[t].articles)
    /\ [][<<feeds, articles>>' # <<feeds, articles>> => (muW # "none" /\ muR = {})]_vars
    /\ [][\A t \in Threads :
            Returns(t) =>
                /\ feeds' = SerialFeeds(op[t], pre[t], clock)
                /\ articles' = SerialArticles(op[t], pre[t])
                /\ SerialReturns(op[t], pre[t], clock, ret'.val)]_vars

\* SaveArticles is half way through a batch holding an article of a
\* registered feed while another caller waits for the lock.
C5_Witness ==
    \E t \in Threads, u \in Threads :
        /\ t # u
        /\ pc[t] = "held" /\ op[t][1] = "SaveArticles"
        /\ Len(op[t][2]) = 2 /\ idx[t] = 2
        /\ op[t][2][2].FeedID \in DOMAIN feeds
        /\ pc[u] = "wait"

\* The range over results is about to end.
CycleCanReturn == fpc = "recv" /\ results = <<>> /\ closed

\* C6: the collecting loop saves and updates exactly the feeds whose task
\* succeeded: a failed result changes nothing in the Store and the loop goes
\* on; a saved batch is stored; an updated feed, if registered, carries the
\* time; and when the cycle returns every successful feed has been saved and
\* updated, whatever the other tasks did.
C6_CycleIsolation ==
    /\ [](/\ persisted \subseteq received
          /\ \A k \in persisted : ~tasks[k].err
          /\ ret.op[1] = "SaveArticles" =>
                \A i \in 1..Len(ret.op[2]) : ret.op[2][i].ID \in DOMAIN articles
          /\ ret.op[1] = "UpdateLastFetched" =>
                /\ ~tasks[ret.op[2]].err
                /\ ret.op[2] \in DOMAIN feeds => feeds[ret.op[2]].LastFetched = ret.op[3]
          /\ CycleCanReturn =>
                \A k \in DOMAIN tasks : ~tasks[k].err => k \in persisted)
    /\ [][(fpc = "recv" /\ results # <<>> /\ Head(results).Err /\ received' # received) =>
            (feeds' = feeds /\ articles' = articles /\ fpc' = "recv")]_vars

\* A cycle is about to return with one feed failed and another saved and
\* updated.
C6_Witness ==
    /\ CycleCanReturn
    /\ \E j \in DOMAIN tasks, k \in DOMAIN tasks :
          /\ tasks[j].err
          /\ k \in persisted
          /\ k \in DOMAIN feeds /\ feeds[k].LastFetched # 0

\* C7: once ctx is cancelled Start's loop begins no further fetchAll.
C7_NoCycleAfterCancel ==
    [][cancelled => ~(fpc = "select" /\ fpc' = "fetchAll")]_vars

\* C8: fetchAll returns only when every goroutine it started has finished and
\* the loop has received every result and is not in the middle of one, also
\* after ctx was cancelled.
C8_JoinBarrier ==
    CycleCanReturn =>
        /\ \A k \in DOMAIN tasks : tasks[k].st = "done"
        /\ received = DOMAIN tasks
        /\ wg = 0
        /\ res = None

\* A cycle of two feeds is about to return after ctx was cancelled during the
\* cycle: one feed was parsed before the cancellation and is persisted, the
\* other failed.
C8_Witness ==
    /\ CycleCanReturn
    /\ cancelled
    /\ Cardinality(DOMAIN tasks) = 2
    /\ persisted # {}
    /\ \E k \in DOMAIN tasks : tasks[k].err

\* C9: RemoveFeed of an identifier that is not registered returns false and
\* changes neither feeds nor articles; after any RemoveFeed the identifier is
\* not registered, and only AddFeed registers one, so that a second
\* RemoveFeed returns false.
C9_RemoveMissing ==
    /\ [](ret.op[1] = "RemoveFeed" => ret.op[2] \notin DOMAIN feeds)
    /\ [][\A t \in Threads :
            (pc[t] = "held" /\ op[t][1] = "RemoveFeed" /\ pc'[t] # "held"
                /\ op[t][2] \notin DOMAIN feeds) =>
                (pc'[t] = "idle" /\ ~ret'.val /\ feeds' = feeds /\ articles' = articles)]_vars
    /\ [][DOMAIN feeds' \subseteq DOMAIN feeds
            \/ \E t \in Threads : Returns(t) /\ op[t][1] = "AddFeed"]_vars

\* A RemoveFeed of an identifier that was registered and removed before has
\* returned false, with articles stored.
C9_Witness ==
    /\ ret.op[1] = "RemoveFeed"
    /\ ~ret.val
    /\ ret.op[2] \in issued
    /\ articles # EmptyMap

\* C10: UpdateLastFetched registers no feed, and changes nothing when the
\* identifier is not registered; saving a result registers no feed either.
C10_NoResurrection ==
    [][/\ (fpc = "update" /\ fpc' = "recv") =>
            /\ DOMAIN feeds' = DOMAIN feeds
            /\ articles' = articles
            /\ res.FeedID \notin DOMAIN feeds => feeds' = feeds
       /\ (fpc = "save" /\ fpc' = "update") => feeds' = feeds]_vars

\* The loop is about to update a feed that was removed while its task ran.
C10_Witness ==
    /\ fpc = "update"
    /\ res.FeedID \notin DOMAIN feeds

DistinctTimes(arts) ==
    \A j, k \in DOMAIN arts : j # k => arts[j].PublishedAt # arts[k].PublishedAt
Elements(s) == {s[i] : i \in 1..Len(s)}
Least(a, b) == IF a < b THEN a ELSE b

\* C11: ListArticles changes nothing in the Store; when the stored articles
\* have distinct publication times its result holds only articles of the feed
\* asked for (any feed when the filter is empty), in strictly descending
\* publication time; with limit <= 0 it holds all of them, with limit > 0 the
\* limit most recent ones.
C11_ListArticles ==
    [][\A t \in Threads :
          (Returns(t) /\ op[t][1] = "ListArticles") =>
              LET f == op[t][2]
                  l == op[t][3]
                  r == ret'.val
                  want == {articles[k] : k \in {x \in DOMAIN articles :
                                                  f = NoFilter \/ articles[x].FeedID = f}}
              IN /\ feeds' = feeds /\ articles' = articles
                 /\ DistinctTimes(articles) =>
                       /\ \A i, j \in 1..Len(r) :
                             i < j => r[i].PublishedAt > r[j].PublishedAt
                       /\ Elements(r) \subseteq want
                       /\ l <= 0 => Elements(r) = want
                       /\ l > 0 =>
                             /\ Len(r) = Least(l, Cardinality(want))
                             /\ \A a \in want \ Elements(r) :
                                   \A i \in 1..Len(r) : r[i].PublishedAt > a.PublishedAt]_vars

\* ListArticles("", 1) has returned the newer of two stored articles with
\* different publication times.
C11_Witness ==
    /\ ret.op[1] = "ListArticles"
    /\ ret.op[2] = NoFilter /\ ret.op[3] = 1
    /\ Cardinality(DOMAIN articles) = 2
    /\ DistinctTimes(articles)
    /\ Len(ret.val) = 1

\* The stored articles with the feed and link of a.
SamePair(arts, a) == {k \in DOMAIN arts : arts[k].FeedID = a.FeedID /\ arts[k].Link = a.Link}

\* C12: when a cycle saves a result, an item whose (feed, link) pair is
\* already stored carries the identifier under which the pair is stored,
\* whatever its title, and is not stored again: the stored article stays and
\* SaveArticles counts only the items whose pair was not stored.
C12_DeterministicIDs ==
    [][(fpc = "save" /\ fpc' = "update") =>
          LET b == res.Articles
          IN /\ \A i \in 1..Len(b) : \A k \in SamePair(articles, b[i]) :
                    /\ b[i].ID = k
                    /\ articles'[k] = articles[k]
             /\ ret'.val = Cardinality({i \in 1..Len(b) : SamePair(articles, b[i]) = {}})
             /\ Cardinality(DOMAIN articles') = Cardinality(DOMAIN articles) + ret'.val]_vars

\* A cycle has saved an item whose pair an earlier cycle stored under another
\* title: SaveArticles returned 0.
C12_Witness ==
    /\ ret.op[1] = "SaveArticles"
    /\ Len(ret.op[2]) = 1
    /\ ret.val = 0
    /\ SamePair(articles, ret.op[2][1]) # {}
    /\ \A k \in SamePair(articles, ret.op[2][1]) : articles[k].Title # ret.op[2][1].Title

\* C13: a stored article keeps every field for as long as it is stored, an
\* article disappears only in the cascade of a RemoveFeed of its feed, and an
\* article appears only in a SaveArticles.
C13_ArticlesImmutable ==
    [][/\ \A k \in DOMAIN articles \cap DOMAIN articles' : articles'[k] = articles[k]
       /\ \A k \in DOMAIN articles \ DOMAIN articles' :
             \E t \in Threads :
                 /\ pc[t] = "cascade" /\ pc'[t] = "idle"
                 /\ op[t][1] = "RemoveFeed" /\ op[t][2] = articles[k].FeedID
       /\ \A k \in DOMAIN articles' \ DOMAIN articles :
             \E t \in Threads : pc[t] = "held" /\ op[t][1] = "SaveArticles"]_vars

\* SaveArticles has returned after it was handed an article whose identifier
\* is stored with other content.
C13_Witness ==
    /\ ret.op[1] = "SaveArticles"
    /\ \E i \in 1..Len(ret.op[2]) :
          /\ ret.op[2][i].ID \in DOMAIN articles
          /\ articles[ret.op[2][i].ID] # ret.op[2][i]

\* C14: Start has made one fetchAll call once it runs, and beyond that first
\* call never more calls than ticks were fired while ctx was not cancelled.
C14_OneCyclePerTick ==
    /\ fpc # "init" => cycles >= 1
    /\ cycles <= 1 + liveTicks

\* C15: Start has not returned while ctx is not cancelled, and once ctx is
\* cancelled Start returns, from its select or from a running cycle.
C15_StartBlocksUntilCancel ==
    /\ [](fpc = "stopped" => cancelled)
    /\ cancelled ~> fpc = "stopped"

\* ctx is cancelled while a cycle runs with a goroutine still parsing.
C15_Witness ==
    /\ cancelled
    /\ fpc = "recv"
    /\ \E k \in DOMAIN tasks : tasks[k].st = "parse"

\* C16: handleAddFeed answers 400 to a request whose name or url is empty and
\* changes nothing in the Store; it answers 201 to a request with a name and a
\* url, and the Store then holds one more feed, which carries that name and
\* url, the feeds registered before being as they were.
C16_AddFeedValidation ==
    [][ret'.op[1] = "handleAddFeed" =>
          LET req == ret'.op[2]
          IN /\ (req.Name = "" \/ req.URL = "") =>
                    /\ ret'.val = 400
                    /\ feeds' = feeds /\ articles' = articles
             /\ (req.decodes /\ req.Name # "" /\ req.URL # "") =>
                    /\ ret'.val = 201
                    /\ Cardinality(DOMAIN feeds') = Cardinality(DOMAIN feeds) + 1
                    /\ \A k \in DOMAIN feeds : feeds'[k] = feeds[k]
                    /\ \A k \in DOMAIN feeds' \ DOMAIN feeds :
                          feeds'[k].Name = req.Name /\ feeds'[k].URL = req.URL]_vars

CycleRunning == fpc \in {"fetchAll", "recv", "save", "update"}

\* C17: a goroutine that has its result can send it at once, so its send
\* never blocks; the channel is closed once, by the closing
\* goroutine, when every goroutine has sent and finished; and every cycle that
\* has started returns to Start's select.
C17_CycleCompletes ==
    /\ [](\A k \in DOMAIN tasks : tasks[k].st = "send" => ENABLED TaskSend(k))
    /\ [](closer = "wait" => ~closed)
    /\ [][(closed' /\ ~closed) =>
            /\ closer = "wait" /\ closer' = "done"
            /\ \A k \in DOMAIN tasks : tasks[k].st = "done"]_vars
    /\ CycleRunning ~> (fpc = "select")

\* Both goroutines of a cycle have sent before the loop received anything:
\* the channel is full.
C17_Witness ==
    /\ fpc = "recv"
    /\ Len(results) = 2
    /\ received = {}

\* C18: the collecting loop takes the results in the order in which they were
\* sent, and it never waits for a goroutine: whenever a result is in the
\* channel the loop can receive it, and it can then save it and update its
\* feed, whatever the other goroutines of the cycle are doing.
C18_IncrementalPersistence ==
    /\ []((fpc = "recv" /\ results # <<>>) => ENABLED (RecvOk \/ RecvFailed))
    /\ [](fpc = "save" => ENABLED FetcherSave)
    /\ [](fpc = "update" => ENABLED FetcherUpdate)
    /\ [][(received' # received /\ received' # {}) =>
            /\ results # <<>>
            /\ received' = received \cup {Head(results).FeedID}
            /\ results' = Tail(results)]_vars

\* One feed is saved and updated while the goroutine of another feed of the
\* cycle is still parsing.
C18_Witness ==
    /\ \E j \in persisted : j \in DOMAIN feeds /\ feeds[j].LastFetched # 0
    /\ \E k \in DOMAIN tasks : tasks[k].st = "parse"

\* The first entry of batch b with identifier id.
FirstWith(b, id) ==
    b[CHOOSE i \in 1..Len(b) : b[i].ID = id /\ \A j \in 1..(i - 1) : b[j].ID # id]

\* C19: every article is stored under its own identifier; SaveArticles
\* returns the number of stored articles after it minus the number when it
\* took the lock; it stores the identifiers of the batch that were not
\* stored, each with the first entry of the batch that carries it.
C19_SaveCount ==
    /\ [](\A k \in DOMAIN articles : articles[k].ID = k)
    /\ [][\A t \in Threads :
            (Returns(t) /\ op[t][1] = "SaveArticles") =>
                LET b == op[t][2]
                    before == pre[t].articles
                IN /\ ret'.val = Cardinality(DOMAIN articles') - Cardinality(DOMAIN before)
                   /\ DOMAIN articles' = DOMAIN before \cup {b[i].ID : i \in 1..Len(b)}
                   /\ \A i \in 1..Len(b) :
                         b[i].ID \notin DOMAIN before =>
                             articles'[b[i].ID] = FirstWith(b, b[i].ID)]_vars

\* SaveArticles has returned 1 for a batch of two different articles with
\* one identifier.
C19_Witness ==
    /\ ret.op[1] = "SaveArticles"
    /\ Len(ret.op[2]) = 2
    /\ ret.op[2][1].ID = ret.op[2][2].ID
    /\ ret.op[2][1] # ret.op[2][2]
    /\ ret.val = 1

ResultIDs == {results[i].FeedID : i \in 1..Len(results)}

\* C20: fetchAll starts one goroutine for each feed registered when it lists
\* them, each on its own feed and all of them running at once, and none when
\* no feed is registered, in which case it returns with the Store as it was;
\* the goroutines of a cycle stay the same; each of them puts one result in the
\* channel, under its feed's identifier, no result being there twice or
\* without its goroutine.
C20_OneTaskPerFeed ==
    /\ [][(fpc = "fetchAll" /\ fpc' # "fetchAll") =>
            /\ DOMAIN tasks' = DOMAIN feeds
            /\ \A k \in DOMAIN tasks' : tasks'[k].st = "parse" /\ tasks'[k].feed.ID = k
            /\ feeds' = feeds /\ articles' = articles
            /\ fpc' = IF DOMAIN feeds = {} THEN "select" ELSE "recv"]_vars
    /\ [][(tasks # EmptyMap /\ tasks' # EmptyMap) => DOMAIN tasks' = DOMAIN tasks]_vars
    /\ [](/\ \A i, j \in 1..Len(results) : i # j => results[i].FeedID # results[j].FeedID
          /\ ResultIDs \cap received = {}
          /\ \A k \in DOMAIN tasks :
                /\ tasks[k].st = "send" => tasks[k].out.FeedID = k
                /\ tasks[k].st \in {"exit", "done"} <=> k \in ResultIDs \cup received
          /\ ResultIDs \cup received \subseteq DOMAIN tasks)

\* The goroutines of two feeds are parsing at the same time.
C20_Witness ==
    /\ Cardinality(DOMAIN tasks) = 2
    /\ \A k \in DOMAIN tasks : tasks[k].st = "parse"

\* C21: a fetchAll call begins only from Start's entry or its select, when
\* no goroutine, result or closing goroutine of an earlier call is left;
\* outside a call none exists; and a tick fired during a call waits in
\* ticker.C and leaves the call as it is.
C21_NoOverlap ==
    /\ [](~CycleRunning => (tasks = EmptyMap /\ results = <<>> /\ wg = 0 /\ closer = "none"))
    /\ [][(fpc' = "fetchAll" /\ fpc # "fetchAll") =>
            /\ fpc \in {"init", "select"}
            /\ tasks = EmptyMap /\ results = <<>> /\ wg = 0 /\ closer = "none"
            /\ cycles' = cycles + 1]_vars
    /\ [][cycles' # cycles => (fpc' = "fetchAll" /\ fpc # "fetchAll")]_vars
    /\ [][(CycleRunning /\ ticks' # ticks) =>
            (fpc' = fpc /\ tasks' = tasks /\ results' = results /\ cycles' = cycles)]_vars

\* A tick waits in ticker.C while the goroutines of a running cycle are at work.
C21_Witness ==
    /\ fpc = "recv"
    /\ tickReady
    /\ \E k \in DOMAIN tasks : tasks[k].st # "done"

====
